---- MODULE Spec2Model ----
(***************************************************************************)
(* A model of mace::Tensor and Tensor::MappingGuard (mace/core/tensor.h):  *)
(* shape, element type, the storage reference and its ownership, the       *)
(* resize paths, the byte copies and the map/unmap guard.                  *)
(*                                                                         *)
(* A MACE_CHECK / LOG(FATAL) that fails ends the process: the variable     *)
(* fatal records the message, the other variables keep what the handler    *)
(* had written before the check, and no operation runs afterwards.         *)
(***************************************************************************)
EXTENDS Integers, Sequences, FiniteSets, TLC

(***************************************************************************)
(* Bounds of the model.                                                    *)
(***************************************************************************)
\* dimension sizes of the small shapes are drawn from 1..MaxDim
MaxDim == 2
\* the small shapes have 1..MaxRank dimensions
MaxRank == 1
\* number of operations (Tensor and MappingGuard calls) in one run
MaxOps == 3
\* how many of them may be calls on the second Tensor, B
MaxOtherOps == 1
\* byte counts passed to CopyBytes besides raw_size(): 1..MaxCopyBytes
MaxCopyBytes == 1

(***************************************************************************)
(* Program constants.                                                      *)
(***************************************************************************)
\* tensor.h:35, the build without MACE_ENABLE_NEON
EXTRA_BUFFER_PAD_SIZE == 0

NULL == 0
TensorIds == {"A", "B"}
GuardIds == {"g", "h"}
NoTensor == "nullptr"

\* the values of DataType the model draws (DT_INVALID is the unset tag)
DTypes == {"DT_FLOAT", "DT_UINT8", "DT_INVALID"}

\* a dimension so large that the product of two of them leaves 32 bits
BigDim == 2 ^ 16

\* the shapes the model draws: up to MaxRank dimensions of 1..MaxDim (one
\* order of each multiset of sizes), and one shape whose element count
\* needs more than 32 bits
RECURSIVE SeqsUpTo(_, _)
SeqsUpTo(S, n) ==
    IF n = 0 THEN {<<>>}
    ELSE LET shorter == SeqsUpTo(S, n - 1)
         IN shorter \cup {Append(s, d) : s \in {x \in shorter : Len(x) = n - 1},
                                         d \in S}

NonIncreasing(s) == \A i \in 1..(Len(s) - 1) : s[i] >= s[i + 1]
SmallShapes == {s \in SeqsUpTo(1..MaxDim, MaxRank) : s # <<>> /\ NonIncreasing(s)}
Shapes == SmallShapes \cup {<<BigDim, BigDim>>}
ImageShapes == {<<1, 1>>, <<1, 2>>, <<2, 1>>}

(***************************************************************************)
(* int arithmetic: the accumulator of std::accumulate in size() has the    *)
(* type of its initial value, the int literal 1, so every partial product  *)
(* is converted back to a 32-bit int.                                      *)
(***************************************************************************)
\* x * y mod 2^16 and x * y div 2^16 for 0 <= x, y < 2^16, computed on the
\* bytes of y so that no intermediate value leaves 31 bits
Lo16Mul(x, y) == ((x * (y % 256)) + ((x * (y \div 256)) % 256) * 256) % 65536
Hi16Mul(x, y) ==
    ((x * (y % 256)) + ((x * (y \div 256)) % 256) * 256) \div 65536
    + (x * (y \div 256)) \div 256

\* the int whose low and high 16 bits are lo and hi (two's complement)
Int32Of(hi, lo) == IF hi >= 32768 THEN (hi - 65536) * 65536 + lo ELSE hi * 65536 + lo

\* (int)((int64_t)a * b) for a in the int range and 0 <= b < 2^31: the low
\* 32 bits of the product
MulInt32(a, b) ==
    LET aL == a % 65536
        aH == (a \div 65536) % 65536
        bL == b % 65536
        bH == (b \div 65536) % 65536
    IN Int32Of((Hi16Mul(aL, bL) + Lo16Mul(aH, bL) + Lo16Mul(aL, bH)) % 65536,
               Lo16Mul(aL, bL))

RECURSIVE AccumulateInt(_, _)
AccumulateInt(acc, s) ==
    IF s = <<>> THEN acc ELSE AccumulateInt(MulInt32(acc, Head(s)), Tail(s))

\* Tensor::size()
size(shape) == AccumulateInt(1, shape)

\* sizeof(T) of the CASES dispatch in SizeOfType(); 0 stands for the
\* LOG(FATAL) branches (DT_INVALID and unknown tags)
TypeWidth(dtype) ==
    CASE dtype = "DT_FLOAT" -> 4
      [] dtype = "DT_DOUBLE" -> 8
      [] dtype = "DT_INT32" -> 4
      [] dtype = "DT_UINT8" -> 1
      [] dtype = "DT_UINT16" -> 2
      [] dtype = "DT_INT16" -> 2
      [] dtype = "DT_INT8" -> 1
      [] dtype = "DT_INT64" -> 8
      [] dtype = "DT_BOOL" -> 1
      [] dtype = "DT_HALF" -> 2
      [] OTHER -> 0

\* a dispatch whose DT_INVALID and default cases fall through without LOG(FATAL)
TypeIsSet_Always(dtype) == TRUE

\* whether SizeOfType() returns (it ends the process otherwise)
TypeIsSet(dtype) == TypeWidth(dtype) # 0

\* Tensor::SizeOfType()
SizeOfType(dtype) == TypeWidth(dtype)

\* Tensor::raw_size()
raw_size(shape, dtype) == size(shape) * SizeOfType(dtype)

(***************************************************************************)
(* State.                                                                  *)
(*   tensors : per Tensor its members and whether it is still alive        *)
(*   store   : the storage objects (BufferBase) ever created, by address   *)
(*   guards  : the MappingGuard objects; mapped is the storage on which    *)
(*             the guard's obligation was taken (history, not a member)    *)
(*   fatal   : "" or the message of the check that ended the process       *)
(*   log     : storage events of the last operation, in program order      *)
(*   nops    : operations run so far, per Tensor and for the guards        *)
(*   resized : the Tensors on which a resize has succeeded (history)       *)
(*   call    : the last operation and the object it ran on (history)       *)
(***************************************************************************)
VARIABLES tensors, store, guards, fatal, log, nops, resized, call

vars == <<tensors, store, guards, fatal, log, nops, resized, call>>

\* the part of the state the Tensor methods read and write
World == [T |-> tensors, S |-> store, fatal |-> fatal, log |-> log]

Fail(w, msg) == [w EXCEPT !.fatal = msg]
Emit(w, e) == [w EXCEPT !.log = Append(@, e)]

(***************************************************************************)
(* Memory contents.  Every write of this file copies n bytes from the      *)
(* start of a source to the start of a destination, so a content is kept   *)
(* as runs <<end, origin>>: the bytes before end (and after the previous   *)
(* run) are, index by index, the bytes of origin.                          *)
(***************************************************************************)
\* bytes of a fresh allocation gen of storage b: indeterminate, its own
FreshData(b, gen, n) == IF n = 0 THEN <<>> ELSE << <<n, <<"mem", b, gen>> >> >>
\* bytes of a caller's array p
SrcData(p, n) == IF n = 0 THEN <<>> ELSE << <<n, <<"src", p, 0>> >> >>

DataLen(d) == IF d = <<>> THEN 0 ELSE d[Len(d)][1]

RECURSIVE Merge(_)
Merge(d) ==
    IF Len(d) < 2 THEN d
    ELSE IF d[1][2] = d[2][2] THEN Merge(Tail(d))
    ELSE <<d[1]>> \o Merge(Tail(d))

\* the first n bytes of d (n <= DataLen(d))
RECURSIVE Prefix(_, _)
Prefix(d, n) ==
    IF n = 0 \/ d = <<>> THEN <<>>
    ELSE IF d[1][1] >= n THEN << <<n, d[1][2]>> >>
    ELSE <<d[1]>> \o Prefix(Tail(d), n)

\* the bytes of d from index n on
RECURSIVE Suffix(_, _)
Suffix(d, n) ==
    IF d = <<>> THEN <<>>
    ELSE IF d[1][1] <= n THEN Suffix(Tail(d), n)
    ELSE d

\* d after its first n bytes are overwritten by the first n bytes of s
Overwrite(d, s, n) == Merge(Prefix(s, n) \o Suffix(d, n))

(***************************************************************************)
(* The storage capability (mace/core/buffer.h: BufferBase, Buffer, Image,  *)
(* BufferSlice).  A storage object keeps its address for good: store[b]    *)
(* stays after delete, with deleted counting the delete calls.             *)
(***************************************************************************)
\* made_by: the Tensor whose Resize or ResizeImage created it, or "caller"
Storage(kind, on_host, n, image_shape, b, made_by) ==
    [kind |-> kind, on_host |-> on_host, size |-> n, image_shape |-> image_shape,
     data |-> FreshData(b, 0, n), gen |-> 0, made_by |-> made_by,
     maps |-> 0, unmaps |-> 0, deleted |-> 0]

\* bytes of an image of the given physical shape: four channels a pixel
ImageBytes(image_shape, dtype) == image_shape[1] * image_shape[2] * 4 * TypeWidth(dtype)

\* new Buffer(allocator, n): a linear buffer where the allocator allocates
NewBuffer(w, t, allocator, n) ==
    LET b == Len(w.S) + 1
    IN Emit([w EXCEPT !.S = Append(@, Storage("Buffer", allocator = "CPU", n, <<>>, b, t))],
            <<"new", b>>)

\* new Image(image_shape, dtype): an accelerator image of that physical shape
NewImage(w, t, image_shape, dtype) ==
    LET b == Len(w.S) + 1
    IN IF Len(image_shape) # 2 THEN Fail(w, "image shape must have two axes")
       ELSE Emit([w EXCEPT !.S = Append(@, Storage("Image", FALSE,
                                  ImageBytes(image_shape, dtype), image_shape, b, t))],
                 <<"new", b>>)

\* buffer->Resize(n): a linear buffer takes the new size; its old bytes
\* survive (keep) or the memory is a fresh block; a view cannot be resized
BufferResize(w, b, n, keep) ==
    IF w.S[b].kind # "Buffer" THEN Fail(w, "Resize is not implemented for this storage")
    ELSE LET g == w.S[b].gen + 1
             fresh == FreshData(b, g, n)
             kept == IF keep THEN Overwrite(fresh, w.S[b].data, w.S[b].size) ELSE fresh
         IN Emit([w EXCEPT !.S[b].size = n, !.S[b].gen = g, !.S[b].data = kept],
                 <<"resize", b>>)

\* buffer->Map(&pitch) and buffer->UnMap()
Map(w, b) == Emit([w EXCEPT !.S[b].maps = @ + 1], <<"map", b>>)
UnMap(w, b) == Emit([w EXCEPT !.S[b].unmaps = @ + 1], <<"unmap", b>>)

\* buffer->Clear(): every byte of the storage is set to zero
BufferClear(w, b) ==
    Emit([w EXCEPT !.S[b].data = IF w.S[b].size = 0 THEN <<>>
                                 ELSE << <<w.S[b].size, <<"zero", 0, 0>> >> >>],
         <<"clear", b>>)

\* delete buffer
Delete(w, b) == Emit([w EXCEPT !.S[b].deleted = @ + 1], <<"delete", b>>)

(***************************************************************************)
(* Tensor.  Each method is an operator from the world before the call to   *)
(* the world after it (or at the failed check).                            *)
(***************************************************************************)
\* Tensor(Allocator *alloc, DataType type)
TensorOfAllocator(alloc, type) ==
    [alive |-> TRUE, allocator_ |-> alloc, dtype_ |-> type, shape_ |-> <<>>,
     image_shape_ |-> <<>>, buffer_ |-> NULL, buffer_slice_ |-> NULL,
     is_buffer_owner_ |-> TRUE]

\* Tensor(BufferBase *buffer, DataType dtype)
TensorOfBuffer(buffer, dtype) ==
    [alive |-> TRUE, allocator_ |-> "none", dtype_ |-> dtype, shape_ |-> <<>>,
     image_shape_ |-> <<>>, buffer_ |-> buffer, buffer_slice_ |-> NULL,
     is_buffer_owner_ |-> FALSE]

\* a slice constructor that takes ownership, as the allocator one does
TensorOfSlice_Owner(slice, dtype) ==
    [alive |-> TRUE, allocator_ |-> "none", dtype_ |-> dtype, shape_ |-> <<>>,
     image_shape_ |-> <<>>, buffer_ |-> slice, buffer_slice_ |-> slice,
     is_buffer_owner_ |-> TRUE]

\* Tensor(const BufferSlice &buffer_slice, DataType dtype): the member
\* buffer_slice_ (at address slice) is a copy of the view, buffer_ points to it
TensorOfSlice(slice, dtype) ==
    [alive |-> TRUE, allocator_ |-> "none", dtype_ |-> dtype, shape_ |-> <<>>,
     image_shape_ |-> <<>>, buffer_ |-> slice, buffer_slice_ |-> slice,
     is_buffer_owner_ |-> FALSE]

\* the test with the negation of OnHost() left out
has_opencl_image_OnHost(w, t) ==
    /\ w.T[t].buffer_ # NULL
    /\ w.S[w.T[t].buffer_].on_host
    /\ w.S[w.T[t].buffer_].kind = "Image"

\* Tensor::has_opencl_image()
has_opencl_image(w, t) ==
    /\ w.T[t].buffer_ # NULL
    /\ ~w.S[w.T[t].buffer_].on_host
    /\ w.S[w.T[t].buffer_].kind = "Image"

\* raw_size() of tensor t in world w
RawSizeOf(w, t) == raw_size(w.T[t].shape_, w.T[t].dtype_)

\* a Resize that asks for the padded raw size whenever it differs from the
\* capacity, so that a smaller shape shrinks the buffer
NeedsGrowth_Differs(raw, capacity) == raw + EXTRA_BUFFER_PAD_SIZE # capacity

\* the test of Resize: raw_size() + EXTRA_BUFFER_PAD_SIZE > buffer_->size()
NeedsGrowth(raw, capacity) == raw + EXTRA_BUFFER_PAD_SIZE > capacity

\* a destructor that deletes whatever the Tensor refers to, owned or not
DestructorDeletes_AnyBuffer(tn) == tn.buffer_ # NULL

\* the test of the destructor: is_buffer_owner_ && buffer_ != nullptr
DestructorDeletes(tn) == tn.is_buffer_owner_ /\ tn.buffer_ # NULL

\* a rebind that deletes whatever the Tensor refers to, owned or not
RebindDeletes_AnyBuffer(tn) == tn.buffer_ # NULL

\* the test of ResizeWithBuffer: buffer_ != nullptr && is_buffer_owner_
RebindDeletes(tn) == tn.buffer_ # NULL /\ tn.is_buffer_owner_

\* a check of the first axis only
ImageFits_FirstAxis(image_shape, physical) == image_shape[1] <= physical[1]

\* the check of ResizeImage on an existing image
ImageFits(image_shape, physical) ==
    image_shape[1] <= physical[1] /\ image_shape[2] <= physical[2]

\* Tensor::SetDtype
SetDtype_(w, t, dtype) == [w EXCEPT !.T[t].dtype_ = dtype]

\* a Reshape without its MACE_CHECK
Reshape_Unchecked(w, t, shape) == [w EXCEPT !.T[t].shape_ = shape]

\* Tensor::Reshape
Reshape_(w, t, shape) ==
    LET w1 == [w EXCEPT !.T[t].shape_ = shape]
        b == w.T[t].buffer_
    IN IF ~TypeIsSet(w1.T[t].dtype_) THEN Fail(w1, "Type not set")
       ELSE IF b = NULL THEN Fail(w1, "SIGSEGV")
       ELSE IF ~(RawSizeOf(w1, t) <= w1.S[b].size)
            THEN Fail(w1, "Check failed: raw_size() <= buffer_->size()")
       ELSE w1

\* an allocation of size() bytes: the element count taken for the byte count
NewBufferSize_Elements(w, t) == size(w.T[t].shape_) + EXTRA_BUFFER_PAD_SIZE

\* the size Resize allocates: raw_size() + EXTRA_BUFFER_PAD_SIZE
NewBufferSize(w, t) == RawSizeOf(w, t) + EXTRA_BUFFER_PAD_SIZE

\* Tensor::Resize
Resize_(w, t, shape, keep) ==
    LET w1 == [w EXCEPT !.T[t].shape_ = shape, !.T[t].image_shape_ = <<>>]
        b == w.T[t].buffer_
    IN IF b # NULL
       THEN IF has_opencl_image(w1, t)
            THEN Fail(w1, "Cannot resize image, use ResizeImage.")
            ELSE IF ~TypeIsSet(w1.T[t].dtype_) THEN Fail(w1, "Type not set")
            ELSE IF NeedsGrowth(RawSizeOf(w1, t), w1.S[b].size)
                 THEN BufferResize(w1, b, RawSizeOf(w1, t) + EXTRA_BUFFER_PAD_SIZE, keep)
                 ELSE w1
       ELSE IF ~w1.T[t].is_buffer_owner_ THEN Fail(w1, "Check failed: is_buffer_owner_")
            ELSE IF ~TypeIsSet(w1.T[t].dtype_) THEN Fail(w1, "Type not set")
            ELSE LET w2 == NewBuffer(w1, t, w1.T[t].allocator_, NewBufferSize(w1, t))
                 IN [w2 EXCEPT !.T[t].buffer_ = Len(w2.S)]

\* Tensor::ResizeWithBuffer
ResizeWithBuffer_(w, t, shape, buffer) ==
    IF has_opencl_image(w, t) THEN Fail(w, "Cannot resize image, use ResizeImage.")
    ELSE LET w1 == [w EXCEPT !.T[t].shape_ = shape, !.T[t].image_shape_ = <<>>]
             w2 == IF RebindDeletes(w1.T[t]) THEN Delete(w1, w1.T[t].buffer_) ELSE w1
         IN Emit([w2 EXCEPT !.T[t].buffer_ = buffer, !.T[t].is_buffer_owner_ = FALSE],
                 <<"bind", buffer>>)

\* Tensor::ResizeImage; image_shape[0] and [1] of a vector with fewer
\* elements are reads out of bounds: the process faults (crash) or the
\* check reads values that pass
ResizeImage_(w, t, shape, image_shape, crash) ==
    LET w1 == [w EXCEPT !.T[t].shape_ = shape, !.T[t].image_shape_ = image_shape]
        b == w.T[t].buffer_
    IN IF b = NULL
       THEN IF ~w1.T[t].is_buffer_owner_ THEN Fail(w1, "Check failed: is_buffer_owner_")
            ELSE LET w2 == NewImage(w1, t, image_shape, w1.T[t].dtype_)
                 IN IF w2.fatal # "" THEN w2 ELSE [w2 EXCEPT !.T[t].buffer_ = Len(w2.S)]
       ELSE IF ~has_opencl_image(w1, t)
            THEN Fail(w1, "Cannot ResizeImage buffer, use Resize.")
            ELSE IF Len(image_shape) < 2
                 THEN (IF crash THEN Fail(w1, "SIGSEGV") ELSE w1)
            ELSE IF ~ImageFits(image_shape, w1.S[b].image_shape)
                 THEN Fail(w1, "current physical image shape < logical image shape")
            ELSE w1

\* a ResizeLike that keeps the storage of the other kind
ReleasesMismatched_Never(tn, is_image, other_is_image) == FALSE

\* the tests of ResizeLike: is_buffer_owner_ && buffer_ != nullptr &&
\* !has_opencl_image() when other is an image, && has_opencl_image() when not
ReleasesMismatched(tn, is_image, other_is_image) ==
    tn.is_buffer_owner_ /\ tn.buffer_ # NULL /\ is_image # other_is_image

\* Tensor::ResizeLike
ResizeLike_(w, t, other, keep, crash) ==
    LET like_image == has_opencl_image(w, other)
        w1 == IF ReleasesMismatched(w.T[t], has_opencl_image(w, t), like_image)
              THEN [Delete(w, w.T[t].buffer_) EXCEPT !.T[t].buffer_ = NULL]
              ELSE w
    IN IF like_image
       THEN ResizeImage_(w1, t, w1.T[other].shape_, w1.T[other].image_shape_, crash)
       ELSE Resize_(w1, t, w1.T[other].shape_, keep)

\* the accessors that hand out the data pointer
Accessors == {"raw_data", "data", "raw_mutable_data", "mutable_data"}

\* Tensor::raw_data, data<T>, raw_mutable_data, mutable_data<T>: the check
\* MACE_CHECK(buffer_ != nullptr, "buffer is null") of raw_data, or
\* MACE_CHECK_NOTNULL(buffer_) of the others, then the pointer of the buffer
Access_(w, t, op) ==
    IF w.T[t].buffer_ = NULL
    THEN Fail(w, IF op = "raw_data" THEN "Check failed: buffer_ != nullptr buffer is null"
                 ELSE "Check failed: buffer_ != nullptr")
    ELSE w

\* Tensor::Clear
Clear_(w, t) ==
    IF w.T[t].buffer_ = NULL THEN Fail(w, "Check failed: buffer_ != nullptr")
    ELSE BufferClear(w, w.T[t].buffer_)

\* Tensor::~Tensor
Destroy_(w, t) ==
    LET w1 == IF DestructorDeletes(w.T[t]) THEN Delete(w, w.T[t].buffer_) ELSE w
    IN [w1 EXCEPT !.T[t].alive = FALSE]

\* memcpy(buffer->raw_mutable_data(), src, n) into storage b.  Writing past
\* the storage, or reading past the source, is undefined: the process
\* faults (crash), or the copy goes on over the neighbouring memory
Memcpy(w, b, src, n, crash) ==
    LET cap == w.S[b].size
        have == DataLen(src)
        bytes == IF have >= n THEN src ELSE src \o << <<n, <<"oob", 0, 0>> >> >>
        m == IF n > cap THEN cap ELSE n
        w1 == Emit([w EXCEPT !.S[b].data = Overwrite(@, bytes, m)], <<"memcpy", b, n>>)
    IN IF n > cap \/ have < n
       THEN (IF crash THEN Fail(w, "SIGSEGV") ELSE Emit(w1, <<"out-of-bounds", b>>))
       ELSE w1

\* the byte count Copy(const Tensor &) passes: other.size() * SizeOfType()
CopyLength(w, t, other) == size(w.T[other].shape_) * SizeOfType(w.T[t].dtype_)

\* a CopyBytes whose guard is a temporary, gone before the memcpy
CopyBytes_GuardFirst(w, t, src, n, crash) ==
    LET b == w.T[t].buffer_
    IN IF b = NULL THEN Fail(w, "Check failed: buffer_ != nullptr")
       ELSE Memcpy(UnMap(Map(w, b), b), b, src, n, crash)

\* Tensor::CopyBytes, with its MappingGuard guard(this)
CopyBytes_(w, t, src, n, crash) ==
    LET b == w.T[t].buffer_
    IN IF b = NULL THEN Fail(w, "Check failed: buffer_ != nullptr")
       ELSE LET w1 == Memcpy(Map(w, b), b, src, n, crash)
            IN IF w1.fatal # "" THEN w1 ELSE UnMap(w1, b)

\* Tensor::Copy(const Tensor &other), with its MappingGuard map_other(&other)
Copy_(w, t, other, keep, crash) ==
    LET w1 == ResizeLike_([w EXCEPT !.T[t].dtype_ = w.T[other].dtype_],
                          t, other, keep, crash)
        ob == w1.T[other].buffer_
    IN IF w1.fatal # "" THEN w1
       ELSE IF ob = NULL THEN Fail(w1, "Check failed: buffer_ != nullptr")
       ELSE LET w2 == Map(w1, ob)
            IN IF ~TypeIsSet(w2.T[t].dtype_) THEN Fail(w2, "Type not set")
               ELSE LET w3 == CopyBytes_(w2, t, w2.S[ob].data,
                                         CopyLength(w2, t, other), crash)
                    IN IF w3.fatal # "" THEN w3 ELSE UnMap(w3, ob)

(***************************************************************************)
(* The initial states: the storage the callers own, and the two Tensors    *)
(* as their constructors leave them.                                       *)
(***************************************************************************)
\* bytes of the callers' accelerator buffer (address 1) and of the slices
ExtBufferBytes == 4
\* the callers' image (address 2) has this physical shape
ExtImageShape == <<2, 2>>

\* the constructor calls the model draws
Ctors ==
    {[c |-> "alloc", alloc |-> "CPU", b |-> NULL, dtype |-> "DT_FLOAT"]}
    \cup {[c |-> "buffer", alloc |-> "none", b |-> b, dtype |-> "DT_FLOAT"] : b \in {1, 2}}
    \cup {[c |-> "slice", alloc |-> "none", b |-> NULL, dtype |-> "DT_FLOAT"]}

ExtStore ==
    << Storage("Buffer", FALSE, ExtBufferBytes, <<>>, 1, "caller"),
       Storage("Image", FALSE, ImageBytes(ExtImageShape, "DT_FLOAT"), ExtImageShape, 2,
               "caller") >>

Construct(c, slice) ==
    CASE c.c = "alloc" -> TensorOfAllocator(c.alloc, c.dtype)
      [] c.c = "buffer" -> TensorOfBuffer(c.b, c.dtype)
      [] c.c = "slice" -> TensorOfSlice(slice, c.dtype)

Init ==
    \E ca \in Ctors, cb \in Ctors :
        LET sa == 3
            sb == IF ca.c = "slice" THEN 4 ELSE 3
            s1 == IF ca.c = "slice"
                  THEN Append(ExtStore, Storage("BufferSlice", TRUE, ExtBufferBytes, <<>>, sa,
                                           "caller"))
                  ELSE ExtStore
            s2 == IF cb.c = "slice"
                  THEN Append(s1, Storage("BufferSlice", TRUE, ExtBufferBytes, <<>>, sb,
                                      "caller"))
                  ELSE s1
        IN /\ tensors = [t \in TensorIds |->
                            IF t = "A" THEN Construct(ca, sa) ELSE Construct(cb, sb)]
           /\ store = s2
           /\ guards = [g \in GuardIds |-> [state |-> "unborn", tensor_ |-> NoTensor,
                                            mapped |-> NULL]]
           /\ fatal = ""
           /\ log = <<>>
           /\ nops = [k \in TensorIds \cup {"guard"} |-> 0]
           /\ resized = {}
           /\ call = <<>>

(***************************************************************************)
(* The operations.                                                         *)
(***************************************************************************)
Start == [World EXCEPT !.log = <<>>]

\* the step of an operation of k (a Tensor, or "guard") that ends in world w
Commit(k, w) ==
    /\ tensors' = w.T
    /\ store' = w.S
    /\ fatal' = w.fatal
    /\ log' = w.log
    /\ nops' = [nops EXCEPT ![k] = @ + 1]

\* the step of Resize, ResizeWithBuffer, ResizeImage, ResizeLike or Copy
CommitResize(t, w) ==
    /\ Commit(t, w)
    /\ resized' = IF w.fatal = "" THEN resized \cup {t} ELSE resized

TotalOps == nops["A"] + nops["B"] + nops["guard"]

Running(k) ==
    /\ fatal = ""
    /\ TotalOps < MaxOps
    /\ k = "B" => nops["B"] < MaxOtherOps

\* the storage a caller can hand over: not yet deleted
LiveStorage == {b \in 1..Len(store) : store[b].deleted = 0}

\* what a caller can pass to ResizeWithBuffer: live storage, or nullptr
Bindable == LiveStorage \cup {NULL}

SetDtype(t, dtype) ==
    /\ call' = <<"SetDtype", t>>
    /\ Running(t) /\ tensors[t].alive
    /\ Commit(t, SetDtype_(Start, t, dtype))
    /\ UNCHANGED <<guards, resized>>

Reshape(t, shape) ==
    /\ call' = <<"Reshape", t>>
    /\ Running(t) /\ tensors[t].alive
    /\ Commit(t, Reshape_(Start, t, shape))
    /\ UNCHANGED <<guards, resized>>

Resize(t, shape) ==
    /\ call' = <<"Resize", t>>
    /\ Running(t) /\ tensors[t].alive
    /\ \E w \in {Resize_(Start, t, shape, keep) : keep \in BOOLEAN} : CommitResize(t, w)
    /\ UNCHANGED guards

ResizeWithBuffer(t, shape, buffer) ==
    /\ call' = <<"ResizeWithBuffer", t>>
    /\ Running(t) /\ tensors[t].alive
    /\ buffer \in Bindable
    /\ CommitResize(t, ResizeWithBuffer_(Start, t, shape, buffer))
    /\ UNCHANGED guards

ResizeImage(t, shape, image_shape) ==
    /\ call' = <<"ResizeImage", t>>
    /\ Running(t) /\ tensors[t].alive
    /\ CommitResize(t, ResizeImage_(Start, t, shape, image_shape, TRUE))
    /\ UNCHANGED guards

ResizeLike(t, other) ==
    /\ call' = <<"ResizeLike", t>>
    /\ Running(t) /\ tensors[t].alive /\ tensors[other].alive /\ t # other
    /\ \E w \in {ResizeLike_(Start, t, other, keep, crash) :
                     keep \in BOOLEAN, crash \in BOOLEAN} : CommitResize(t, w)
    /\ UNCHANGED guards

CopyBytes(t, p, n) ==
    /\ call' = <<"CopyBytes", t>>
    /\ Running(t) /\ tensors[t].alive
    /\ \E w \in {CopyBytes_(Start, t, SrcData(p, n), n, crash) : crash \in BOOLEAN} :
           Commit(t, w)
    /\ UNCHANGED <<guards, resized>>

Copy(t, other) ==
    /\ call' = <<"Copy", t>>
    /\ Running(t) /\ tensors[t].alive /\ tensors[other].alive /\ t # other
    /\ \E w \in {Copy_(Start, t, other, keep, crash) :
                     keep \in BOOLEAN, crash \in BOOLEAN} : CommitResize(t, w)
    /\ UNCHANGED guards

Access(t, op) ==
    /\ call' = <<op, t>>
    /\ Running(t) /\ tensors[t].alive
    /\ Commit(t, Access_(Start, t, op))
    /\ UNCHANGED <<guards, resized>>

Clear(t) ==
    /\ call' = <<"Clear", t>>
    /\ Running(t) /\ tensors[t].alive
    /\ Commit(t, Clear_(Start, t))
    /\ UNCHANGED <<guards, resized>>

Destroy(t) ==
    /\ call' = <<"Destroy", t>>
    /\ Running(t) /\ tensors[t].alive
    /\ Commit(t, Destroy_(Start, t))
    /\ UNCHANGED <<guards, resized>>

(***************************************************************************)
(* Tensor::MappingGuard.                                                   *)
(***************************************************************************)
\* a constructor without MACE_CHECK_NOTNULL: Map is called through nullptr
MappingGuard_Unchecked(w, tensor) ==
    IF tensor = NoTensor THEN w
    ELSE IF w.T[tensor].buffer_ = NULL THEN Fail(w, "SIGSEGV")
    ELSE Map(w, w.T[tensor].buffer_)

\* explicit MappingGuard(const Tensor *tensor)
MappingGuard_(w, tensor) ==
    IF tensor = NoTensor THEN w
    ELSE IF w.T[tensor].buffer_ = NULL THEN Fail(w, "Check failed: buffer_ != nullptr")
    ELSE Map(w, w.T[tensor].buffer_)

\* ~MappingGuard(): tensor_->buffer_->UnMap() on the buffer the Tensor holds
\* now.  Through a destroyed Tensor, a null buffer_ or a deleted buffer the
\* call is undefined: the process faults (crash) or the stale object answers
UnmapGuard_(w, tensor, crash) ==
    IF tensor = NoTensor THEN w
    ELSE LET b == w.T[tensor].buffer_
         IN IF b = NULL THEN Fail(w, "SIGSEGV")
            ELSE IF (~w.T[tensor].alive \/ w.S[b].deleted > 0) /\ crash
                 THEN Fail(w, "SIGSEGV")
            ELSE UnMap(w, b)

\* MappingGuard g(tensor)
GuardCtor(g, tensor) ==
    /\ call' = <<"GuardCtor", g>>
    /\ Running("guard") /\ guards[g].state = "unborn"
    /\ tensor # NoTensor => tensors[tensor].alive
    /\ LET w == MappingGuard_(Start, tensor)
       IN /\ Commit("guard", w)
          /\ guards' = IF w.fatal # "" THEN guards
                        ELSE [guards EXCEPT ![g] =
                                [state |-> "live", tensor_ |-> tensor,
                                 mapped |-> IF tensor = NoTensor THEN NULL
                                            ELSE tensors[tensor].buffer_]]
    /\ UNCHANGED resized

\* MappingGuard(MappingGuard &&other): g is built from other
GuardMove(g, other) ==
    /\ call' = <<"GuardMove", g>>
    /\ Running("guard") /\ guards[g].state = "unborn" /\ guards[other].state = "live"
    /\ Commit("guard", Start)
    /\ guards' = [guards EXCEPT ![g] = [state |-> "live", tensor_ |-> guards[other].tensor_,
                                        mapped |-> guards[other].mapped],
                                 ![other].mapped = NULL,
                                 ![other].tensor_ = NoTensor]
    /\ UNCHANGED resized

GuardDtor(g) ==
    /\ call' = <<"GuardDtor", g>>
    /\ Running("guard") /\ guards[g].state = "live"
    /\ \E w \in {UnmapGuard_(Start, guards[g].tensor_, crash) : crash \in BOOLEAN} :
          /\ Commit("guard", w)
          /\ guards' = IF w.fatal # "" THEN guards
                        ELSE [guards EXCEPT ![g].state = "dead"]
    /\ UNCHANGED resized

\* the source arrays a caller passes to CopyBytes
Sources == {1}

Next ==
    \/ \E t \in TensorIds, d \in DTypes : SetDtype(t, d)
    \/ \E t \in TensorIds, s \in Shapes : Reshape(t, s)
    \/ \E t \in TensorIds, s \in Shapes : Resize(t, s)
    \/ \E t \in TensorIds, s \in Shapes, b \in 0..Len(store) : ResizeWithBuffer(t, s, b)
    \/ \E t \in TensorIds, s \in Shapes, i \in ImageShapes : ResizeImage(t, s, i)
    \/ \E t \in TensorIds, o \in TensorIds : ResizeLike(t, o)
    \/ \E t \in TensorIds, p \in Sources :
          \E n \in (1..MaxCopyBytes) \cup {RawSizeOf(World, t)} : CopyBytes(t, p, n)
    \/ \E t \in TensorIds, o \in TensorIds : Copy(t, o)
    \/ \E t \in TensorIds, op \in Accessors : Access(t, op)
    \/ \E t \in TensorIds : Clear(t)
    \/ \E t \in TensorIds : Destroy(t)
    \/ \E t \in TensorIds \cup {NoTensor} : GuardCtor("g", t)
    \/ GuardMove("h", "g")
    \/ \E g \in GuardIds : GuardDtor(g)

Spec == Init /\ [][Next]_vars

(***************************************************************************)
(* Vocabulary of the properties.                                           *)
(***************************************************************************)
\* the Tensor is usable: constructed, not destroyed, the process running
Usable(t) == fatal = "" /\ tensors[t].alive

\* raw_size() of Tensor t in the current state
RawSize(t) == raw_size(tensors[t].shape_, tensors[t].dtype_)

\* storage.size() of Tensor t (storage non-null)
Capacity(t) == store[tensors[t].buffer_].size

\* v is the exact product of the dimensions of shape (all of them >= 1),
\* decided by dividing v, so that no large product is formed
RECURSIVE IsProductOf(_, _)
IsProductOf(v, shape) ==
    IF shape = <<>> THEN v = 1
    ELSE /\ v % Head(shape) = 0
         /\ IsProductOf(v \div Head(shape), Tail(shape))

\* raw_size() = product(shape) * size_of(element_type), for a set type tag
RawSizeIsExact(t) ==
    /\ RawSize(t) % TypeWidth(tensors[t].dtype_) = 0
    /\ IsProductOf(RawSize(t) \div TypeWidth(tensors[t].dtype_), tensors[t].shape_)

\* raw_size() <= storage.size()
RawSizeFits(t) == tensors[t].buffer_ # NULL /\ RawSize(t) <= Capacity(t)

\* this step is a call on Tensor t
StepOf(t) == nops'[t] = nops[t] + 1

(***************************************************************************)
(* C1.  As claimed: in every state after a successful resize, through any  *)
(* later operations, raw_size() = product(shape) * size_of(element_type)   *)
(* and raw_size() <= storage.size().                                       *)
(***************************************************************************)
C1_Original ==
    \A t \in resized :
        (Usable(t) /\ TypeIsSet(tensors[t].dtype_))
            => (RawSizeIsExact(t) /\ RawSizeFits(t))

(***************************************************************************)
(* C2.  As claimed: for a shape S without a zero dimension and a set       *)
(* element type, a Resize(S) that succeeds on a Tensor whose storage is    *)
(* null and owned, or an existing buffer that is not an image, ends with   *)
(* shape = S, raw_size() = product(S) * size_of(element_type) and          *)
(* raw_size() <= storage.size().                                           *)
(***************************************************************************)
C2_Original ==
    [][\A t \in TensorIds, S \in Shapes :
          ( /\ Resize(t, S) /\ fatal' = ""
            /\ TypeIsSet(tensors[t].dtype_)
            /\ \/ tensors[t].buffer_ = NULL /\ tensors[t].is_buffer_owner_
               \/ tensors[t].buffer_ # NULL /\ store[tensors[t].buffer_].kind = "Buffer" )
            => ( /\ tensors'[t].shape_ = S
                 /\ RawSizeIsExact(t)'
                 /\ RawSizeFits(t)' )
      ]_vars

(***************************************************************************)
(* C3.  A Resize of an owned, buffer-backed Tensor never lowers the        *)
(* capacity storage.size(): the capacity changes only when the padded raw  *)
(* size (raw_size() + padding) of the new shape exceeds it, and then it    *)
(* becomes that padded raw size; a Resize to a shape that fits leaves the  *)
(* capacity, and the storage object, as they were.                         *)
(***************************************************************************)
C3_CapacityMonotonic ==
    [][\A t \in TensorIds, S \in Shapes :
          ( /\ Resize(t, S) /\ fatal' = ""
            /\ tensors[t].is_buffer_owner_
            /\ tensors[t].buffer_ # NULL
            /\ store[tensors[t].buffer_].kind = "Buffer" )
            => LET b == tensors[t].buffer_
                   padded == RawSize(t)' + EXTRA_BUFFER_PAD_SIZE
               IN /\ tensors'[t].buffer_ = b
                  /\ store'[b].size >= store[b].size
                  /\ padded > store[b].size => store'[b].size = padded
                  /\ padded <= store[b].size => store'[b] = store[b]
      ]_vars

\* C3, witness: a Tensor owns a buffer that an earlier Resize has grown in
\* place, and its last Resize, to a smaller shape, left the buffer alone
C3_Witness ==
    \E t \in resized :
        /\ Usable(t) /\ tensors[t].is_buffer_owner_
        /\ call = <<"Resize", t>> /\ log = <<>>
        /\ tensors[t].buffer_ # NULL
        /\ store[tensors[t].buffer_].kind = "Buffer"
        /\ store[tensors[t].buffer_].gen > 0
        /\ tensors[t].dtype_ = "DT_FLOAT"
        /\ RawSize(t) > 0
        /\ RawSize(t) + EXTRA_BUFFER_PAD_SIZE < Capacity(t)

(***************************************************************************)
(* C4.  On a Tensor whose image storage a first ResizeImage has made, a    *)
(* later ResizeImage with an image_shape that is <= the first call's on    *)
(* both axes succeeds, sets the logical shape and leaves the storage       *)
(* object as it is; one whose image_shape exceeds the first call's on an   *)
(* axis ends the process with the bounds message.                          *)
(***************************************************************************)
C4_SecondResizeImage ==
    [][\A t \in TensorIds, S \in Shapes, I \in ImageShapes :
          ( /\ ResizeImage(t, S, I)
            /\ tensors[t].buffer_ # NULL
            /\ store[tensors[t].buffer_].kind = "Image"
            /\ store[tensors[t].buffer_].made_by = t )
            => LET b == tensors[t].buffer_
                   first == store[b].image_shape
               IN IF I[1] <= first[1] /\ I[2] <= first[2]
                  THEN /\ fatal' = ""
                       /\ tensors'[t].shape_ = S
                       /\ tensors'[t].image_shape_ = I
                       /\ tensors'[t].buffer_ = b
                       /\ store' = store
                  ELSE /\ fatal' = "current physical image shape < logical image shape"
                       /\ store' = store
      ]_vars

\* C4, witness: a second ResizeImage, to a smaller image_shape, has
\* succeeded on the image the Tensor made
C4_Witness ==
    \E t \in TensorIds :
        /\ Usable(t) /\ call = <<"ResizeImage", t>> /\ log = <<>>
        /\ tensors[t].buffer_ # NULL
        /\ store[tensors[t].buffer_].kind = "Image"
        /\ store[tensors[t].buffer_].made_by = t
        /\ tensors[t].image_shape_ = <<1, 1>>
        /\ store[tensors[t].buffer_].image_shape = <<1, 2>>

(***************************************************************************)
(* C5.  A ResizeWithBuffer(shape, external_buffer) that returns leaves     *)
(* owns_storage false and the storage bound to external_buffer, and has    *)
(* deleted the storage the Tensor owned before, once and before binding;   *)
(* from then on no operation on the Tensor, its destruction included,      *)
(* deletes any storage, and the Tensor never owns its storage again.       *)
(***************************************************************************)
C5_ResizeWithBuffer ==
    [][\A t \in TensorIds :
          /\ \A S \in Shapes, b \in Bindable :
                (ResizeWithBuffer(t, S, b) /\ fatal' = "")
                  => LET old == tensors[t].buffer_
                         owned == tensors[t].is_buffer_owner_ /\ old # NULL
                     IN /\ ~tensors'[t].is_buffer_owner_
                        /\ tensors'[t].buffer_ = b
                        /\ log' = IF owned THEN << <<"delete", old>>, <<"bind", b>> >>
                                           ELSE << <<"bind", b>> >>
                        /\ \A x \in 1..Len(store) :
                              store'[x].deleted = store[x].deleted
                                                   + (IF owned /\ x = old THEN 1 ELSE 0)
          /\ (~tensors[t].is_buffer_owner_ /\ StepOf(t))
                => /\ ~tensors'[t].is_buffer_owner_
                   /\ \A x \in 1..Len(store) : store'[x].deleted = store[x].deleted
      ]_vars

\* C5, witness: a Tensor that owned a buffer was rebound to a caller's
\* buffer and then destroyed; its own buffer is deleted, the caller's is not
C5_Witness ==
    \E t \in resized :
        /\ fatal = "" /\ call = <<"Destroy", t>> /\ log = <<>>
        /\ ~tensors[t].alive /\ ~tensors[t].is_buffer_owner_
        /\ tensors[t].buffer_ # NULL
        /\ store[tensors[t].buffer_].made_by = "caller"
        /\ store[tensors[t].buffer_].deleted = 0
        /\ \E x \in 1..Len(store) : store[x].made_by = t /\ store[x].deleted = 1

(***************************************************************************)
(* C6.  No storage object is deleted twice; storage that the caller made,  *)
(* which a Tensor only ever borrows, is never deleted by a Tensor; and     *)
(* once a Tensor is destroyed, every storage object it allocated itself    *)
(* (in Resize or ResizeImage) has been deleted exactly once.               *)
(***************************************************************************)
C6_ReleasedExactlyOnce ==
    \A x \in 1..Len(store) :
        /\ store[x].deleted <= 1
        /\ store[x].made_by = "caller" => store[x].deleted = 0
        /\ (store[x].made_by \in TensorIds /\ ~tensors[store[x].made_by].alive)
              => store[x].deleted = 1

\* C6, witness: the destructor has just deleted the storage that the
\* Tensor allocated and still owned
C6_Witness ==
    \E t \in resized :
        /\ fatal = "" /\ call = <<"Destroy", t>>
        /\ ~tensors[t].alive /\ tensors[t].is_buffer_owner_
        /\ tensors[t].buffer_ # NULL
        /\ log = << <<"delete", tensors[t].buffer_>> >>
        /\ store[tensors[t].buffer_].made_by = t
        /\ store[tensors[t].buffer_].deleted = 1

(***************************************************************************)
(* C7.  As claimed: every guard unmaps exactly once per successful map,    *)
(* moves included, so that once every guard that was built is destroyed    *)
(* the map and unmap counts of each storage object are equal.              *)
(***************************************************************************)
C7_Original ==
    (fatal = "" /\ \A g \in GuardIds : guards[g].state # "live")
        => \A x \in 1..Len(store) : store[x].maps = store[x].unmaps

(***************************************************************************)
(* C8.  As claimed: in every state of a usable Tensor, image_shape is      *)
(* non-empty if and only if its storage is an accelerator image.           *)
(***************************************************************************)
C8_Original ==
    \A t \in TensorIds :
        Usable(t) => ( tensors[t].image_shape_ # <<>>
                         <=> ( /\ tensors[t].buffer_ # NULL
                               /\ store[tensors[t].buffer_].kind = "Image" ) )

\* the first n bytes of storage x and of storage y exist and are equal
SameBytes(S, x, y, n) ==
    /\ DataLen(S[x].data) >= n /\ DataLen(S[y].data) >= n
    /\ Merge(Prefix(S[x].data, n)) = Merge(Prefix(S[y].data, n))

(***************************************************************************)
(* C9.  As claimed: a Copy(A) that returns on a Tensor B other than A,     *)
(* where A has storage, leaves B.element_type = A.element_type, B.shape =  *)
(* A.shape and the first A.size() * size_of(type) bytes of B's storage     *)
(* equal to those of A's storage, and leaves A's type, shape and bytes     *)
(* as they were.                                                           *)
(***************************************************************************)
C9_Original ==
    [][\A dst \in TensorIds, src \in TensorIds :
          (Copy(dst, src) /\ fatal' = "" /\ tensors[src].buffer_ # NULL)
            => /\ tensors'[dst].dtype_ = tensors[src].dtype_
               /\ tensors'[dst].shape_ = tensors[src].shape_
               /\ tensors'[dst].buffer_ # NULL
               /\ SameBytes(store', tensors'[dst].buffer_, tensors'[src].buffer_,
                             size(tensors[src].shape_) * SizeOfType(tensors[src].dtype_))
               /\ tensors'[src] = tensors[src]
               /\ store'[tensors[src].buffer_].data = store[tensors[src].buffer_].data
      ]_vars

(***************************************************************************)
(* C10.  The wrong resize path for the storage at hand fails and leaves    *)
(* the storage alone: Resize on a Tensor whose storage is an accelerator   *)
(* image ends the process with "use ResizeImage", ResizeImage on a Tensor  *)
(* whose storage exists and is not an image ends it with "use Resize";     *)
(* neither rebinds the Tensor, nor allocates, resizes or deletes storage.  *)
(***************************************************************************)
C10_WrongResizePath ==
    [][\A t \in TensorIds, S \in Shapes :
          /\ ( /\ Resize(t, S)
               /\ tensors[t].buffer_ # NULL
               /\ store[tensors[t].buffer_].kind = "Image" )
                => /\ fatal' = "Cannot resize image, use ResizeImage."
                   /\ tensors'[t].buffer_ = tensors[t].buffer_
                   /\ tensors'[t].is_buffer_owner_ = tensors[t].is_buffer_owner_
                   /\ store' = store
          /\ \A I \in ImageShapes :
               ( /\ ResizeImage(t, S, I)
                 /\ tensors[t].buffer_ # NULL
                 /\ store[tensors[t].buffer_].kind # "Image" )
                  => /\ fatal' = "Cannot ResizeImage buffer, use Resize."
                     /\ tensors'[t].buffer_ = tensors[t].buffer_
                     /\ tensors'[t].is_buffer_owner_ = tensors[t].is_buffer_owner_
                     /\ store' = store
      ]_vars

\* C10, witness: Resize was called on a Tensor holding the image that its
\* own ResizeImage allocated, and the process ended there
C10_Witness ==
    \E t \in resized :
        /\ call = <<"Resize", t>>
        /\ fatal = "Cannot resize image, use ResizeImage."
        /\ tensors[t].alive /\ tensors[t].is_buffer_owner_
        /\ tensors[t].buffer_ # NULL
        /\ store[tensors[t].buffer_].kind = "Image"
        /\ store[tensors[t].buffer_].made_by = t
        /\ store[tensors[t].buffer_].deleted = 0

\* the storage of Tensor t is an accelerator image
ImageBacked(t) ==
    tensors[t].buffer_ # NULL /\ store[tensors[t].buffer_].kind = "Image"

(***************************************************************************)
(* C11.  A ResizeLike(other) that returns leaves this.shape = other.shape  *)
(* and this Tensor image-backed exactly when other is; and when the kinds  *)
(* differed and this Tensor owned its storage, the first thing the call    *)
(* does is delete that storage, once, before the resize path allocates.    *)
(***************************************************************************)
C11_ResizeLike ==
    [][\A t \in TensorIds, other \in TensorIds :
          ResizeLike(t, other)
            => /\ fatal' = ""
                    => /\ tensors'[t].shape_ = tensors[other].shape_
                       /\ tensors'[t].buffer_ # NULL
                       /\ ImageBacked(t)' <=> ImageBacked(other)
               /\ ( /\ ImageBacked(t) # ImageBacked(other)
                    /\ tensors[t].is_buffer_owner_ /\ tensors[t].buffer_ # NULL )
                    => /\ log' # <<>>
                       /\ log'[1] = <<"delete", tensors[t].buffer_>>
                       /\ store'[tensors[t].buffer_].deleted = 1
                       /\ tensors'[t].buffer_ # tensors[t].buffer_
      ]_vars

\* C11, witness: a Tensor that owned an image has been resized like a
\* Tensor without image storage: the image is deleted, a buffer allocated
C11_Witness ==
    \E t \in TensorIds :
        /\ Usable(t) /\ call = <<"ResizeLike", t>>
        /\ Len(log) = 2 /\ log[1][1] = "delete" /\ log[2][1] = "new"
        /\ store[log[1][2]].kind = "Image" /\ store[log[1][2]].made_by = t
        /\ tensors[t].buffer_ = log[2][2]
        /\ store[tensors[t].buffer_].kind = "Buffer"

(***************************************************************************)
(* C12.  A Tensor constructed over a storage view (slice) never owns       *)
(* storage, in any state and whatever is called on it, and neither its     *)
(* slice nor any storage of the caller, which the slice views, is ever     *)
(* deleted, the destruction of the Tensor included.                        *)
(***************************************************************************)
C12_SliceNeverOwned ==
    \A t \in TensorIds :
        tensors[t].buffer_slice_ # NULL
          => /\ ~tensors[t].is_buffer_owner_
             /\ store[tensors[t].buffer_slice_].deleted = 0
             /\ \A x \in 1..Len(store) :
                   store[x].made_by = "caller" => store[x].deleted = 0

\* C12, witness: a Tensor over a slice was resized within the slice,
\* rebound to another buffer, and destroyed
C12_Witness ==
    \E t \in resized :
        /\ fatal = "" /\ call = <<"Destroy", t>> /\ ~tensors[t].alive
        /\ nops[t] = 3
        /\ tensors[t].buffer_slice_ # NULL
        /\ tensors[t].buffer_ # tensors[t].buffer_slice_
        /\ store[tensors[t].buffer_slice_].kind = "BufferSlice"

\* this step has allocated one storage object, for Tensor t, and has left
\* the others as they were
Allocated(t) ==
    /\ Len(store') = Len(store) + 1
    /\ SubSeq(store', 1, Len(store)) = store
    /\ tensors'[t].buffer_ = Len(store')
    /\ log' = << <<"new", Len(store')>> >>

(***************************************************************************)
(* C13.  With null storage, Resize fails when the Tensor is not an owner,  *)
(* and otherwise (element type set) allocates a new linear buffer of       *)
(* exactly raw_size() plus EXTRA_BUFFER_PAD_SIZE bytes and stays the       *)
(* owner; ResizeImage with null storage fails when the Tensor is not an    *)
(* owner, and otherwise allocates a new image of the requested             *)
(* image_shape and stays the owner.                                        *)
(***************************************************************************)
C13_NullStorage ==
    [][\A t \in TensorIds, S \in Shapes :
          /\ (Resize(t, S) /\ tensors[t].buffer_ = NULL)
                => IF ~tensors[t].is_buffer_owner_
                   THEN /\ fatal' = "Check failed: is_buffer_owner_"
                        /\ store' = store /\ tensors'[t].buffer_ = NULL
                   ELSE /\ TypeIsSet(tensors[t].dtype_) => fatal' = ""
                        /\ fatal' = ""
                             => /\ Allocated(t)
                                /\ store'[tensors'[t].buffer_].kind = "Buffer"
                                /\ store'[tensors'[t].buffer_].size
                                      = RawSize(t)' + EXTRA_BUFFER_PAD_SIZE
                                /\ tensors'[t].shape_ = S
                                /\ tensors'[t].is_buffer_owner_
          /\ \A I \in ImageShapes :
               (ResizeImage(t, S, I) /\ tensors[t].buffer_ = NULL)
                 => IF ~tensors[t].is_buffer_owner_
                    THEN /\ fatal' = "Check failed: is_buffer_owner_"
                         /\ store' = store /\ tensors'[t].buffer_ = NULL
                    ELSE /\ TypeIsSet(tensors[t].dtype_) => fatal' = ""
                         /\ fatal' = ""
                              => /\ Allocated(t)
                                 /\ store'[tensors'[t].buffer_].kind = "Image"
                                 /\ store'[tensors'[t].buffer_].image_shape = I
                                 /\ tensors'[t].shape_ = S
                                 /\ tensors'[t].image_shape_ = I
                                 /\ tensors'[t].is_buffer_owner_
      ]_vars

\* C13, witness: a Resize on an owner without storage has allocated a
\* buffer of raw_size() + EXTRA_BUFFER_PAD_SIZE bytes for a float shape
C13_Witness ==
    \E t \in TensorIds :
        /\ Usable(t) /\ call = <<"Resize", t>>
        /\ tensors[t].is_buffer_owner_ /\ tensors[t].buffer_ # NULL
        /\ log = << <<"new", tensors[t].buffer_>> >>
        /\ tensors[t].dtype_ = "DT_FLOAT" /\ tensors[t].shape_ = <<2>>
        /\ Capacity(t) = 8 + EXTRA_BUFFER_PAD_SIZE

\* the process has ended at a check of buffer_ against nullptr
NullCheckFailed ==
    fatal \in {"Check failed: buffer_ != nullptr",
               "Check failed: buffer_ != nullptr buffer is null"}

(***************************************************************************)
(* C14.  On a Tensor with null storage, raw_data, raw_mutable_data, the    *)
(* typed accessors, Clear, CopyBytes and the construction of a mapping     *)
(* guard bound to the Tensor each end the process at a check of the        *)
(* storage reference, without a call through the null reference and        *)
(* without any effect on storage or guards.                                *)
(***************************************************************************)
C14_NullStorageChecked ==
    [][\A t \in TensorIds :
          ( /\ tensors[t].buffer_ = NULL
            /\ \/ \E op \in Accessors : Access(t, op)
               \/ Clear(t)
               \/ call' = <<"CopyBytes", t>>
               \/ \E g \in GuardIds : GuardCtor(g, t) )
            => /\ NullCheckFailed'
               /\ log' = <<>>
               /\ store' = store /\ guards' = guards /\ tensors' = tensors
      ]_vars

\* C14, witness: the construction of a guard on a Tensor whose storage a
\* ResizeWithBuffer had set to nullptr has ended the process at the check
C14_Witness ==
    \E t \in resized :
        /\ call = <<"GuardCtor", "g">> /\ NullCheckFailed
        /\ tensors[t].alive /\ tensors[t].buffer_ = NULL
        /\ ~tensors[t].is_buffer_owner_
        /\ guards["g"].state = "unborn"

(***************************************************************************)
(* C15.  As claimed: size() is the exact product of the dimension sizes    *)
(* (1 for the empty shape) and raw_size() that product times the element   *)
(* width, for every shape whose product fits in 64 bits; nothing is cut    *)
(* at a narrower width.                                                    *)
(***************************************************************************)
C15_Original ==
    \A t \in TensorIds :
        (Usable(t) /\ TypeIsSet(tensors[t].dtype_))
            => /\ IsProductOf(size(tensors[t].shape_), tensors[t].shape_)
               /\ RawSizeIsExact(t)

(***************************************************************************)
(* C16.  SizeOfType() is the byte width of the element type for the        *)
(* supported types, and a Tensor whose type tag is unset or unrecognized   *)
(* makes every Resize and Reshape on it, and every Copy from it, end the   *)
(* process; no buffer is allocated or resized for an element width of 0.   *)
(***************************************************************************)
C16_TypeNotSetIsFatal ==
    [][\A t \in TensorIds :
          /\ SizeOfType("DT_FLOAT") = 4 /\ SizeOfType("DT_UINT8") = 1
          /\ ( /\ tensors[t].dtype_ = "DT_INVALID"
               /\ \E S \in Shapes : Resize(t, S) \/ Reshape(t, S) )
                => /\ fatal' # ""
                   /\ store' = store
                   /\ tensors'[t].buffer_ = tensors[t].buffer_
          /\ \A other \in TensorIds :
                (tensors[other].dtype_ = "DT_INVALID" /\ Copy(t, other))
                   => /\ fatal' # ""
                      /\ \A i \in 1..Len(log') : log'[i][1] \notin {"memcpy", "resize"}
      ]_vars

\* C16, witness: a Resize on a Tensor whose tag SetDtype had set to
\* DT_INVALID has ended the process with "Type not set"
C16_Witness ==
    \E t \in TensorIds :
        /\ call = <<"Resize", t>> /\ fatal = "Type not set"
        /\ tensors[t].alive /\ tensors[t].dtype_ = "DT_INVALID"
        /\ tensors[t].is_buffer_owner_ /\ tensors[t].buffer_ = NULL

(***************************************************************************)
(* C17.  As claimed: the unmap that the destruction of a guard issues is   *)
(* on the storage object that the guard's construction mapped, whatever    *)
(* ran on the Tensor in between; never on storage bound to the Tensor      *)
(* afterwards and never on released storage.                               *)
(***************************************************************************)
C17_Original ==
    [][\A g \in GuardIds :
          (GuardDtor(g) /\ guards[g].tensor_ # NoTensor /\ fatal' = "")
            => /\ log' = << <<"unmap", guards[g].mapped>> >>
               /\ store[guards[g].mapped].deleted = 0
      ]_vars

(***************************************************************************)
(* C18.  As claimed: no operation on a Tensor returns with the Tensor      *)
(* bound to storage that the operation has deleted; after each call the    *)
(* storage reference is null or refers to storage the call did not         *)
(* release.                                                                *)
(***************************************************************************)
C18_Original ==
    [][\A t \in TensorIds :
          (StepOf(t) /\ fatal' = "" /\ tensors'[t].alive /\ tensors'[t].buffer_ # NULL)
            => \A i \in 1..Len(log') : log'[i] # <<"delete", tensors'[t].buffer_>>
      ]_vars

\* the map, unmap and memcpy events of a log, in order
MapEvents(l) == SelectSeq(l, LAMBDA e : e[1] \in {"map", "unmap", "memcpy"})

(***************************************************************************)
(* C19.  In a Copy(other) that returns, on distinct Tensors: the resize    *)
(* of the destination (delete, allocation, growth) precedes every map;     *)
(* other's storage is mapped, then the destination's; the bytes are        *)
(* copied into the destination while both are mapped; the destination is   *)
(* unmapped, then other; and each storage has as many new unmaps as maps.  *)
(***************************************************************************)
C19_CopyMapOrder ==
    [][\A t \in TensorIds, other \in TensorIds :
          (Copy(t, other) /\ fatal' = "")
            => LET ob == tensors'[other].buffer_
                   tb == tensors'[t].buffer_
                   ev == MapEvents(log')
               IN /\ Len(ev) = 5
                  /\ ev[1] = <<"map", ob>>
                  /\ ev[2] = <<"map", tb>>
                  /\ ev[3][1] = "memcpy" /\ ev[3][2] = tb
                  /\ ev[4] = <<"unmap", tb>>
                  /\ ev[5] = <<"unmap", ob>>
                  /\ \A i \in 1..Len(log'), j \in 1..Len(log') :
                        (log'[i][1] \in {"delete", "new", "resize"} /\ log'[j][1] = "map")
                          => i < j
                  /\ \A x \in 1..Len(store) :
                        store'[x].maps - store[x].maps
                          = store'[x].unmaps - store[x].unmaps
      ]_vars

\* C19, witness: a Copy between Tensors with different storage has
\* allocated the destination's buffer and copied into it
C19_Witness ==
    \E t \in TensorIds, other \in TensorIds :
        /\ t # other /\ Usable(t) /\ Usable(other) /\ call = <<"Copy", t>>
        /\ tensors[t].buffer_ # tensors[other].buffer_
        /\ Len(log) = 6 /\ log[1] = <<"new", tensors[t].buffer_>>
        /\ log[2] = <<"map", tensors[other].buffer_>>
        /\ log[4][1] = "memcpy" /\ log[4][3] > 0
        /\ log[6] = <<"unmap", tensors[other].buffer_>>

(***************************************************************************)
(* C20.  Reshape(shape) on a Tensor with storage and a set element type    *)
(* returns exactly when the raw_size() of the new shape is <=              *)
(* storage.size(), and then the shape is the new one; otherwise it ends    *)
(* the process.  Either way the storage reference, the storage (capacity   *)
(* and contents), owns_storage, the element type and image_shape are as    *)
(* before: nothing is allocated, grown or deleted.                         *)
(***************************************************************************)
C20_ReshapeFrame ==
    [][\A t \in TensorIds, S \in Shapes :
          (Reshape(t, S) /\ tensors[t].buffer_ # NULL)
            => /\ TypeIsSet(tensors[t].dtype_)
                    => (fatal' = "" <=> raw_size(S, tensors[t].dtype_) <= Capacity(t))
               /\ fatal' = "" => tensors'[t].shape_ = S
               /\ tensors'[t].buffer_ = tensors[t].buffer_
               /\ tensors'[t].is_buffer_owner_ = tensors[t].is_buffer_owner_
               /\ tensors'[t].dtype_ = tensors[t].dtype_
               /\ tensors'[t].image_shape_ = tensors[t].image_shape_
               /\ store' = store
               /\ log' = <<>>
      ]_vars

\* C20, witness: a Reshape to a shape larger than the buffer that the
\* Tensor's Resize allocated has ended the process at the check
C20_Witness ==
    \E t \in resized :
        /\ call = <<"Reshape", t>>
        /\ fatal = "Check failed: raw_size() <= buffer_->size()"
        /\ tensors[t].alive /\ tensors[t].is_buffer_owner_
        /\ tensors[t].buffer_ # NULL
        /\ store[tensors[t].buffer_].made_by = t
        /\ RawSize(t) > Capacity(t)

====
